---- MODULE Spec2Model ----
(***************************************************************************)
(* Model of apps/worker/worker.py: the fetch-enrich-aggregate pipeline of  *)
(* the bilibili online-count worker.  One asyncio event loop runs the      *)
(* scheduler coroutine (caller 0) and, during a cycle's fan-out, one       *)
(* enrich_video task per catalog entry (callers 1..MaxItems).  A step of   *)
(* the model is the code a coroutine runs between two suspension points.   *)
(* Time is discrete: Tick is one time unit; the rate limiter's cursor is   *)
(* kept relative to the current instant (due = _next_at - now, floored at  *)
(* 0).                                                                     *)
(***************************************************************************)
EXTENDS Integers, Sequences, FiniteSets, TLC

\* ------------------------------------------------------------ bounds
MaxItems == 3          \* the largest cfg.max_items: entries in one catalog
MaxConcurrency == 2    \* the largest cfg.max_concurrency
FewItems == 1          \* cfg.max_items of the runs with several cycles
MaxCycles == 2         \* cycles the scheduler may start
MinIntervalTicks == 2  \* RateLimiter(0.8): the minimum interval, in ticks
DocChunks == 2         \* write() calls json.dump makes for one document

\* ------------------------------------------------------------ program constants
Retries == 3           \* _get_json_with_retry(retries=3)
ProgressEvery == 10    \* build_payload: i % 10 == 0

Callers == 0 .. MaxItems
Tasks == 1 .. MaxItems

\* ------------------------------------------------------------ state
VARIABLES
    pc,          \* where the scheduler coroutine is
    stop_event,  \* asyncio.Event set by the signal handler
    cycles,      \* cycles started so far
    cfg,         \* the Config load_config returned
    disk,        \* the files: "out" is cfg.output_path, "tmp" is that path + ".tmp"
    fileBefore,  \* history: the output file when the current cycle began
    outcome,     \* history: how the last finished cycle ended
    catalog,     \* popular_items of the current cycle
    cpc,         \* per caller: where its coroutine is
    stage,       \* per task: which fetch of enrich_video it is in
    attempt,     \* per caller: attempt of _get_json_with_retry
    permits,     \* sem._value
    lock,        \* holder of limiter._lock
    due,         \* limiter._next_at - now, floored at 0
    sleepLeft,   \* per caller: what is left of its asyncio.sleep in wait()
    age,         \* history: time since the limiter last admitted a request
    touched,     \* history: tasks that called limiter.wait() or client.get()
    enriched,    \* results collected so far, in order of completion
    payload,     \* what build_payload returned
    net,         \* the endpoints of this run: what they may answer
    fields,      \* per task: the fields enrich_video has resolved from the detail
    answered,    \* history, per task: the code of the online answer it received
    last_err,    \* per caller: last_err of _get_json_with_retry
    exc,         \* per caller: the exception its coroutine ended with
    gets,        \* history, per caller: how each GET of the current call ended
    progress,    \* history: ordinals of the completions reported as progress
    atStop       \* history: callers still in the suspension the signal found them in

\* ------------------------------------------------------------ JSON values
JNone == [t |-> "none"]
JBool(b) == [t |-> "bool", v |-> b]
JInt(n) == [t |-> "int", v |-> n]
\* a float, in tenths: JFloat(-15) is -1.5
JFloat(n) == [t |-> "float", v |-> n]
\* a string is the sequence of its characters
JStr(s) == [t |-> "str", v |-> s]
\* a dict with n keys
JDict(n) == [t |-> "dict", n |-> n]

Digits == <<"0", "1", "2", "3", "4", "5", "6", "7", "8", "9">>

IsDigit(ch) == \E d \in 1 .. 10 : Digits[d] = ch

DigitVal(ch) == (CHOOSE d \in 1 .. 10 : Digits[d] = ch) - 1

RECURSIVE Strip(_)
Strip(s) ==
    IF s = <<>> THEN s
    ELSE IF Head(s) = " " THEN Strip(Tail(s))
    ELSE IF s[Len(s)] = " " THEN Strip(SubSeq(s, 1, Len(s) - 1))
    ELSE s

RECURSIVE ParseDigits(_, _)
ParseDigits(s, acc) ==
    IF s = <<>> THEN acc ELSE ParseDigits(Tail(s), acc * 10 + DigitVal(Head(s)))

\* str.isdigit(): non-empty and every character a digit
IsDigitStr(s) == s # <<>> /\ \A k \in 1 .. Len(s) : IsDigit(s[k])

\* int(float): truncation toward zero
TruncTenths(n) == IF n >= 0 THEN n \div 10 ELSE -((-n) \div 10)

_safe_int(v) ==
    IF v.t = "none" THEN JNone
    ELSE IF v.t = "bool" THEN JInt(IF v.v THEN 1 ELSE 0)
    ELSE IF v.t = "int" THEN v
    ELSE IF v.t = "float" THEN JInt(TruncTenths(v.v))
    ELSE IF v.t = "str" /\ IsDigitStr(Strip(v.v)) THEN JInt(ParseDigits(Strip(v.v), 0))
    ELSE JNone

\* Python truthiness of a value _safe_int returned (None or an int)
Truthy(v) == v.t = "int" /\ v.v # 0


\* ------------------------------------------------------------ catalog entries
Bvid(i) == <<"B", "V", Digits[i + 1]>>

\* an owner object, a stat object
Owner(name) == [t |-> "dict", name |-> name]

Stat(view, danmaku) == [t |-> "dict", view |-> view, danmaku |-> danmaku]

\* the fields an entry or a detail answer may carry besides the identifiers
FieldsOf(title, pic, owner, stat, pubdate) ==
    [title |-> title, pic |-> pic, owner |-> owner, stat |-> stat, pubdate |-> pubdate]

\* none of the keys is present
Bare == FieldsOf(JNone, JNone, JNone, JNone, JNone)

\* a raw entry with every field usable, and raw entries that differ from it
\* in one field
RawFull ==
    FieldsOf(JStr(<<"R">>), JStr(<<"r">>), Owner("R"), Stat(JInt(1), JStr(<<"2">>)), JInt(100))

RawFields ==
    {Bare, RawFull}
    \cup {[RawFull EXCEPT !.title = v] : v \in {JNone, JInt(5), JStr(<<>>)}}
    \cup {[RawFull EXCEPT !.pic = v] : v \in {JNone, JStr(<<>>)}}
    \cup {[RawFull EXCEPT !.owner = v] : v \in {JNone}}
    \cup {[RawFull EXCEPT !.stat = v] : v \in {JNone}}
    \cup {[RawFull EXCEPT !.pubdate = v] : v \in {JNone, JStr(<<"1">>)}}

\* an element of data.list: a dict with these keys, or something else
Entry(isDict, bvid, f) ==
    [dict |-> isDict, bvid |-> bvid, title |-> f.title, pic |-> f.pic, owner |-> f.owner,
     stat |-> f.stat, pubdate |-> f.pubdate]

\* what the popular endpoint may put at position i of data.list
EntryChoices(i) ==
    {Entry(TRUE, b, f) :
        b \in { JStr(Bvid(i)),    \* a usable identifier
                JNone,            \* no "bvid" key
                JStr(<<>>),       \* empty string
                JInt(7) },        \* not a string
        f \in net.raws}
    \cup {Entry(FALSE, JNone, Bare)}      \* the entry is not a dict

AllEntries == UNION {EntryChoices(i) : i \in Tasks}

CatalogLists(n) ==
    {s \in [1 .. n -> AllEntries] : \A i \in 1 .. n : s[i] \in EntryChoices(i)}

\* faulty variant: the empty string passes
MissingBvidTypeOnly(raw) == raw.bvid.t # "str"

\* raw_item.get("bvid") is unusable: not isinstance(bvid, str) or not bvid
MissingBvid(raw) == raw.bvid.t # "str" \/ raw.bvid.v = <<>>

\* ------------------------------------------------------------ endpoint answers
ListOf(s) == [t |-> "list", v |-> s]

\* values the detail endpoint may give data.cid, and the online endpoint data.count
CidValues == {JNone, JInt(0), JInt(7), JStr(<<"7">>)}

CountValues == {JNone, JInt(-2), JInt(-1), JInt(0), JInt(1), JStr(<<" ", "1">>), JFloat(-15)}

\* the "data" object of a detail answer
Detail(cid, f) ==
    [t |-> "dict", cid |-> cid, title |-> f.title, pic |-> f.pic, owner |-> f.owner,
     stat |-> f.stat, pubdate |-> f.pubdate]

DetailFull ==
    FieldsOf(JStr(<<"D">>), JStr(<<"d">>), Owner("D"), Stat(JInt(3), JNone), JInt(200))

DetailFields ==
    {Bare, DetailFull}
    \cup {[DetailFull EXCEPT !.title = v] : v \in {JNone, JInt(5), JStr(<<>>)}}
    \cup {[DetailFull EXCEPT !.pic = v] : v \in {JNone, JStr(<<>>)}}
    \cup {[DetailFull EXCEPT !.owner = v] : v \in {JNone, JStr(<<"x">>)}}
    \cup {[DetailFull EXCEPT !.stat = v] : v \in {JNone, JStr(<<"x">>)}}
    \cup {[DetailFull EXCEPT !.pubdate = v] : v \in {JNone, JBool(TRUE)}}

\* the "data" object of an online answer
OnlineData(total, count) == [t |-> "dict", total |-> total, count |-> count]

\* why an attempt of a GET fails: client.get raises, raise_for_status raises,
\* resp.json() raises, the body is JSON but not an object
Causes == {"ConnectError", "HTTPStatusError", "JSONDecodeError", "ValueError"}

\* endpoints that answer with the identifiers only, and fail in one way
PlainNet ==
    [ causes |-> {"ConnectError"},
      raws |-> {Bare},
      details |-> {Detail(c, Bare) : c \in CidValues},
      onlines |-> {[code |-> -400, data |-> JNone]}
                  \cup {[code |-> 0, data |-> OnlineData(JNone, v)] : v \in CountValues} ]

\* endpoints whose answers vary in every field, and fail in every way
RichNet ==
    [ causes |-> Causes,
      raws |-> RawFields,
      details |-> {Detail(c, f) : c \in {JNone, JInt(7)}, f \in DetailFields}
                  \cup {JNone, ListOf(<<JInt(1)>>)},
      onlines |-> {[code |-> -400, data |-> OnlineData(JStr(<<"9", "+">>), JInt(9))],
                   [code |-> 0, data |-> JNone],
                   [code |-> 0, data |-> ListOf(<<JInt(1)>>)],
                   [code |-> 0, data |-> OnlineData(JStr(<<"9", "+">>), JInt(9))],
                   [code |-> 0, data |-> OnlineData(JNone, JStr(<<"x">>))]} ]

\* ------------------------------------------------------------ files
NoFile == [st |-> "absent"]

\* a file holding the first `written` chunks of the serialisation of doc;
\* synced: its content has been forced to stable storage
FileOf(doc, written, synced) ==
    [st |-> "present", doc |-> doc, written |-> written, synced |-> synced]

Snapshot(stamp, items) == [json |-> "object", updated_at |-> stamp, items |-> items]

\* a JSON array of n elements
ArrayDoc(n) == [json |-> "array", n |-> n]

Complete(f) == f.st = "present" /\ f.written = DocChunks

\* the output file before the worker first runs
InitialFiles ==
    { NoFile,                                       \* FileNotFoundError
      FileOf(Snapshot(0, <<>>), 1, TRUE),           \* truncated text: JSONDecodeError
      FileOf(Snapshot(0, <<>>), DocChunks, TRUE),   \* a JSON object
      FileOf(ArrayDoc(0), DocChunks, TRUE),         \* valid JSON: []
      FileOf(ArrayDoc(1), DocChunks, TRUE) }        \* valid JSON: a non-empty array

\* json.load of the file, or None
_read_existing(f) == IF Complete(f) THEN f.doc ELSE JNone

\* ------------------------------------------------------------ state tuples
vars == <<pc, stop_event, atStop, cycles, cfg, net, disk, fileBefore, outcome,
          catalog, cpc, stage, fields, answered, attempt, last_err, gets, permits, lock, due,
          sleepLeft, age, touched, enriched, progress, payload, exc>>

schedVars == <<pc, stop_event, atStop, cycles, cfg, net, outcome>>
diskVars == <<disk, fileBefore>>
limiterVars == <<lock, due, sleepLeft, age>>
taskVars == <<catalog, cpc, stage, fields, answered, attempt, last_err, gets, permits, touched,
              enriched, progress, payload, exc>>

NoHolder == {}
NoPayload == [json |-> "none"]
NoError == [type |-> "none"]

\* the exceptions the pipeline raises
MissingBvidError == [type |-> "RuntimeError", msg |-> "missing bvid"]
FetchError(cause) == [type |-> "RuntimeError", msg |-> "GET failed after retries", cause |-> cause]
PopularError == [type |-> "RuntimeError", msg |-> "popular api"]
AttributeError == [type |-> "AttributeError"]
WriteError == [type |-> "OSError"]

NoFields == [title |-> JNone]

Max(a, b) == IF a >= b THEN a ELSE b
Min(a, b) == IF a <= b THEN a ELSE b

\* the locals of run_once and build_payload, before and after a cycle
IdleLocals ==
    /\ catalog' = <<>>
    /\ cpc' = [c \in Callers |-> "absent"]
    /\ stage' = [i \in Tasks |-> "detail"]
    /\ fields' = [i \in Tasks |-> NoFields]
    /\ answered' = [i \in Tasks |-> JNone]
    /\ attempt' = [c \in Callers |-> 0]
    /\ last_err' = [c \in Callers |-> "none"]
    /\ gets' = [c \in Callers |-> <<>>]
    /\ permits' = 0
    /\ touched' = {}
    /\ enriched' = <<>>
    /\ progress' = {}
    /\ payload' = NoPayload

\* RateLimiter.__init__
NewLimiter ==
    /\ lock' = NoHolder
    /\ due' = 0
    /\ sleepLeft' = [c \in Callers |-> 0]
    /\ age' = -1

\* the configuration of the runs with several cycles, and of the runs of one
\* cycle with a large fan-out
SchedConfig == [max_items |-> FewItems, max_concurrency |-> 1]

FanoutConfig == [max_items |-> MaxItems, max_concurrency |-> MaxConcurrency]

\* the worker starts: main() has loaded the configuration
InitWith(config, endpoints, files) ==
    /\ pc = "idle"
    /\ stop_event = FALSE
    /\ atStop = {}
    /\ cycles = 0
    /\ cfg = config
    /\ net = endpoints
    /\ disk \in {[out |-> f, tmp |-> NoFile] : f \in files}
    /\ fileBefore = disk.out
    /\ outcome = "none"
    /\ catalog = <<>>
    /\ cpc = [c \in Callers |-> "absent"]
    /\ stage = [i \in Tasks |-> "detail"]
    /\ fields = [i \in Tasks |-> NoFields]
    /\ answered = [i \in Tasks |-> JNone]
    /\ attempt = [c \in Callers |-> 0]
    /\ last_err = [c \in Callers |-> "none"]
    /\ gets = [c \in Callers |-> <<>>]
    /\ permits = 0
    /\ lock = NoHolder
    /\ due = 0
    /\ sleepLeft = [c \in Callers |-> 0]
    /\ age = -1
    /\ touched = {}
    /\ enriched = <<>>
    /\ progress = {}
    /\ payload = NoPayload
    /\ exc = [c \in Callers |-> NoError]

Init == InitWith(SchedConfig, PlainNet, InitialFiles)

InitFanout == InitWith(FanoutConfig, PlainNet, {NoFile})

\* one entry, every shape of entry and of answer, over an existing snapshot
InitEnrich == InitWith(SchedConfig, RichNet, {FileOf(Snapshot(0, <<>>), DocChunks, TRUE)})

\* ------------------------------------------------------------ scheduler
\* the states of the scheduler the specification names
SchedState ==
    CASE pc = "idle" -> "Idle"
      [] pc \in {"catalog", "fanout", "w_makedirs", "w_open", "w_dump", "w_fsync",
                 "w_replace"} -> "Running"
      [] pc = "sleeping" -> "Sleeping"
      [] pc = "shutting" -> "ShuttingDown"
      [] pc = "stopped" -> "Stopped"
      [] pc = "crashed" -> "Crashed"
      [] OTHER -> "Killed"

\* existing = _read_existing(out_path) or {}; existing.get("items") raises
\* AttributeError when existing is not a dict (outside run_once's try)
ExistingGetRaises(f) ==
    LET read == _read_existing(f)
        falsy == read = JNone \/ (read.json = "array" /\ read.n = 0)
    IN  ~falsy /\ read.json # "object"

\* run_once up to its first suspension: read the existing file, enter the try,
\* build_payload creates the limiter and calls fetch_popular_videos
run_once ==
    /\ cycles < MaxCycles
    /\ cycles' = cycles + 1
    /\ fileBefore' = disk.out
    /\ NewLimiter
    /\ IF ExistingGetRaises(disk.out)
       THEN /\ pc' = "crashed"
            /\ IdleLocals
            /\ outcome' = "raised"
            /\ exc' = [c \in Callers |-> IF c = 0 THEN AttributeError ELSE NoError]
       ELSE /\ pc' = "catalog"
            /\ outcome' = "none"
            /\ cpc' = [c \in Callers |-> IF c = 0 THEN "limwait" ELSE "absent"]
            /\ attempt' = [c \in Callers |-> 0]
            /\ last_err' = [c \in Callers |-> "none"]
            /\ gets' = [c \in Callers |-> <<>>]
            /\ exc' = [c \in Callers |-> NoError]
            /\ UNCHANGED <<catalog, stage, fields, answered, permits, touched, enriched, progress, payload>>
    /\ UNCHANGED <<stop_event, atStop, cfg, net, disk>>

\* scheduler(): install the handlers, test the loop condition, start the first cycle
scheduler_start ==
    /\ pc = "idle"
    /\ run_once

\* the callers suspended in the sleep of wait() or in client.get()
Suspended == {c \in Callers : cpc[c] \in {"limsleep", "get"}}

\* faulty variant: the handler also cancels the cycle that is running
signal_stop_cancels ==
    /\ pc \in {"catalog", "fanout", "sleeping"}
    /\ ~stop_event
    /\ stop_event' = TRUE
    /\ atStop' = Suspended
    /\ pc' = IF pc = "sleeping" THEN pc ELSE "shutting"
    /\ UNCHANGED <<cycles, cfg, net, outcome, diskVars, limiterVars, taskVars>>

\* the signal handler: stop_event.set(); the loop runs it only while the
\* scheduler coroutine is suspended
signal_stop ==
    /\ pc \in {"catalog", "fanout", "sleeping"}
    /\ ~stop_event
    /\ stop_event' = TRUE
    /\ atStop' = Suspended
    /\ UNCHANGED <<pc, cycles, cfg, net, outcome, diskVars, limiterVars, taskVars>>

\* faulty variant: while True
LoopForever == TRUE

\* while not stop_event.is_set()
LoopContinues == ~stop_event

\* wait_for(stop_event.wait(), timeout) times out and the loop condition holds
wait_timeout ==
    /\ pc = "sleeping"
    /\ LoopContinues
    /\ run_once

\* wait_for returns because the event is set; the loop condition fails
wait_stopped ==
    /\ pc = "sleeping"
    /\ stop_event
    /\ ~LoopContinues
    /\ pc' = "shutting"
    /\ UNCHANGED <<stop_event, atStop, cycles, cfg, net, outcome, diskVars, limiterVars, taskVars>>

\* print("[worker] shutting down gracefully"); scheduler returns
scheduler_return ==
    /\ pc = "shutting"
    /\ pc' = "stopped"
    /\ UNCHANGED <<stop_event, atStop, cycles, cfg, net, outcome, diskVars, limiterVars, taskVars>>

\* run_once returns to the scheduler, which starts its interval wait
ReturnToScheduler(result) ==
    /\ outcome' = result
    /\ pc' = "sleeping"
    /\ atStop' = {}
    /\ IdleLocals
    /\ NewLimiter

\* faulty variant: the handler writes an error document over the output file
CycleFailedWritesError ==
    /\ ReturnToScheduler("failed")
    /\ disk' = [disk EXCEPT !.out = FileOf(Snapshot(cycles, <<>>), DocChunks, TRUE)]
    /\ UNCHANGED <<stop_event, cycles, cfg, net, fileBefore>>

\* except Exception in run_once: report, return
CycleFailed ==
    /\ ReturnToScheduler("failed")
    /\ UNCHANGED <<stop_event, cycles, cfg, net, diskVars>>

\* ------------------------------------------------------------ RateLimiter
\* faulty variant: wait() without its lock
LockFreeAlways == TRUE

LockFree == lock = NoHolder

Touch(c) == touched' = IF c \in Tasks THEN touched \cup {c} ELSE touched

\* the suspension caller c was in is over
Resumed(c) ==
    /\ atStop' = atStop \ {c}
    /\ UNCHANGED <<pc, stop_event, cycles, cfg, net, outcome>>

\* wait() up to its first suspension: take the lock; sleep if now < _next_at,
\* else advance the cursor and return
limiter_wait(c) ==
    /\ cpc[c] = "limwait"
    /\ LockFree
    /\ Touch(c)
    /\ IF due > 0
       THEN /\ lock' = lock \cup {c}
            /\ sleepLeft' = [sleepLeft EXCEPT ![c] = due]
            /\ cpc' = [cpc EXCEPT ![c] = "limsleep"]
            /\ UNCHANGED <<due, age>>
       ELSE /\ due' = MinIntervalTicks
            /\ age' = 0
            /\ cpc' = [cpc EXCEPT ![c] = "get"]
            /\ UNCHANGED <<lock, sleepLeft>>
    /\ UNCHANGED <<schedVars, diskVars, catalog, stage, fields, answered, attempt, last_err, gets, permits, enriched, progress, payload, exc>>

\* the sleep in wait() is over: now = time.monotonic(); advance the cursor;
\* release the lock; the caller issues its GET
limiter_wake(c) ==
    /\ cpc[c] = "limsleep"
    /\ sleepLeft[c] = 0
    /\ Resumed(c)
    /\ due' = MinIntervalTicks
    /\ age' = 0
    /\ lock' = lock \ {c}
    /\ cpc' = [cpc EXCEPT ![c] = "get"]
    /\ UNCHANGED <<diskVars, sleepLeft, catalog, stage, fields, answered, attempt, last_err, gets, permits,
                   touched, enriched, progress, payload, exc>>

\* one unit of time passes
Tick ==
    /\ pc \in {"catalog", "fanout"}
    /\ \/ due > 0
       \/ age \in 0 .. MinIntervalTicks - 1
       \/ \E c \in Callers : sleepLeft[c] > 0
    /\ due' = Max(due - 1, 0)
    /\ age' = IF age < 0 THEN age ELSE Min(age + 1, MinIntervalTicks)
    /\ sleepLeft' = [c \in Callers |-> Max(sleepLeft[c] - 1, 0)]
    /\ UNCHANGED <<schedVars, diskVars, lock, taskVars>>


\* ------------------------------------------------------------ _get_json_with_retry
\* faulty variant: last_err keeps the cause of the first failed attempt
get_failed_keeps_first(c) ==
    /\ cpc[c] = "get"
    /\ Touch(c)
    /\ Resumed(c)
    /\ \E cause \in net.causes :
          /\ last_err' = [last_err EXCEPT ![c] = IF @ = "none" THEN cause ELSE @]
          /\ gets' = [gets EXCEPT ![c] = Append(@, cause)]
    /\ IF attempt[c] + 1 < Retries
       THEN /\ attempt' = [attempt EXCEPT ![c] = attempt[c] + 1]
            /\ cpc' = [cpc EXCEPT ![c] = "limwait"]
       ELSE /\ attempt' = attempt
            /\ cpc' = [cpc EXCEPT ![c] = "backoff"]
    /\ UNCHANGED <<diskVars, limiterVars, catalog, stage, fields, answered, permits,
                   enriched, progress, payload, exc>>

\* an attempt fails (client.get raises, an error status, a body that does not
\* decode, a body that is not a JSON object): last_err = e, report, sleep the
\* backoff; before the last attempt the loop goes on to the next one
get_failed(c) ==
    /\ cpc[c] = "get"
    /\ Touch(c)
    /\ Resumed(c)
    /\ \E cause \in net.causes :
          /\ last_err' = [last_err EXCEPT ![c] = cause]
          /\ gets' = [gets EXCEPT ![c] = Append(@, cause)]
    /\ IF attempt[c] + 1 < Retries
       THEN /\ attempt' = [attempt EXCEPT ![c] = attempt[c] + 1]
            /\ cpc' = [cpc EXCEPT ![c] = "limwait"]
       ELSE /\ attempt' = attempt
            /\ cpc' = [cpc EXCEPT ![c] = "backoff"]
    /\ UNCHANGED <<diskVars, limiterVars, catalog, stage, fields, answered, permits,
                   enriched, progress, payload, exc>>

\* the backoff after the last attempt is over and the loop ends: raise RuntimeError
Exhausted(c) == cpc[c] = "backoff"

\* ------------------------------------------------------------ fetch_popular_videos
\* JSON objects the popular endpoint may answer with
PopularResponses ==
    {[code |-> -352, list |-> JNone], [code |-> 0, list |-> JNone],
     [code |-> 0, list |-> JDict(0)], [code |-> 0, list |-> JDict(1)]}
    \cup {[code |-> 0, list |-> ListOf(s)] :
            s \in UNION {CatalogLists(n) : n \in 0 .. cfg.max_items}}

Falsy(v) ==
    \/ v.t = "none"
    \/ v.t = "dict" /\ v.n = 0
    \/ v.t = "list" /\ v.v = <<>>

\* data.get("list") or []
PopularItems(raw) == IF Falsy(raw.list) THEN <<>> ELSE raw.list.v

\* raw.get("code") != 0, or items is not a list
PopularRaises(raw) == raw.code # 0 \/ (~Falsy(raw.list) /\ raw.list.t # "list")

\* the catalog fetch gives up, or the answer is refused: the cycle fails
fetch_popular_failed ==
    /\ pc = "catalog"
    /\ \/ /\ Exhausted(0)
          /\ exc' = [exc EXCEPT ![0] = FetchError(last_err[0])]
       \/ /\ cpc[0] = "get"
          /\ \E raw \in PopularResponses : PopularRaises(raw)
          /\ exc' = [exc EXCEPT ![0] = PopularError]
    /\ CycleFailed

\* the catalog arrives; build_payload makes the semaphore and one enrich_video
\* coroutine per dict entry, and as_completed schedules them
fetch_popular_videos ==
    /\ pc = "catalog"
    /\ cpc[0] = "get"
    /\ \E raw \in PopularResponses :
          /\ ~PopularRaises(raw)
          /\ catalog' = PopularItems(raw)
          /\ cpc' = [c \in Callers |->
                       IF c \in 1 .. Len(PopularItems(raw)) /\ PopularItems(raw)[c].dict
                       THEN "new" ELSE "absent"]
    /\ pc' = "fanout"
    /\ permits' = cfg.max_concurrency
    /\ attempt' = [c \in Callers |-> 0]
    /\ last_err' = [c \in Callers |-> "none"]
    /\ gets' = [c \in Callers |-> <<>>]
    /\ atStop' = atStop \ {0}
    /\ UNCHANGED <<stop_event, cycles, cfg, net, outcome, diskVars, limiterVars,
                   stage, fields, answered, touched, enriched, progress, payload, exc>>

\* ------------------------------------------------------------ enrich_video
IsStr(v) == v.t = "str"

IsDict(v) == v.t = "dict"

\* isinstance(v, int): bool is a subclass of int
IsInt(v) == v.t \in {"int", "bool"}

IntOf(v) == IF v.t = "bool" THEN (IF v.v THEN 1 ELSE 0) ELSE v.v

\* f"(untitled) {bvid}"
Placeholder(bvid) ==
    JStr(<<"(", "u", "n", "t", "i", "t", "l", "e", "d", ")", " ">> \o bvid)

\* datetime.fromtimestamp(n).strftime(...): the text that denotes instant n
FormatTime(n) == [t |-> "str", strftime |-> n]

\* view_raw.get("data") or {}
ViewData(data) == IF data.t = "none" THEN Detail(JNone, Bare) ELSE data

\* view_data is neither a dict nor falsy: view_data.get raises AttributeError
ViewDataRaises(data) == data.t \notin {"none", "dict"}

\* title: the raw entry's if it is a string, else the detail's, else the placeholder
Title(raw, vd) ==
    LET title == IF IsStr(raw.title) THEN raw.title ELSE vd.title
    IN  IF IsStr(title) THEN title ELSE Placeholder(raw.bvid.v)

\* pic: the raw entry's if it is a non-empty string, else the detail's, else ""
Pic(raw, vd) ==
    LET pic == IF ~IsStr(raw.pic) \/ raw.pic.v = <<>> THEN vd.pic ELSE raw.pic
    IN  IF IsStr(pic) THEN pic ELSE JStr(<<>>)

OwnerOf(raw, vd) == IF IsDict(vd.owner) THEN vd.owner ELSE raw.owner

StatOf(raw, vd) == IF IsDict(vd.stat) THEN vd.stat ELSE raw.stat

View(raw, vd) == IF IsDict(StatOf(raw, vd)) THEN _safe_int(StatOf(raw, vd).view) ELSE JNone

Danmaku(raw, vd) == IF IsDict(StatOf(raw, vd)) THEN _safe_int(StatOf(raw, vd).danmaku) ELSE JNone

Pubdate(raw, vd) ==
    LET first == IF IsInt(vd.pubdate) THEN vd.pubdate ELSE raw.pubdate
        pubdate == IF IsInt(first) THEN IntOf(first) ELSE 0
    IN  FormatTime(pubdate)

\* the locals of enrich_video before the online fetch
Resolve(raw, vd) ==
    [title |-> Title(raw, vd), pic |-> Pic(raw, vd), owner |-> OwnerOf(raw, vd),
     view |-> View(raw, vd), danmaku |-> Danmaku(raw, vd), pubdate |-> Pubdate(raw, vd)]

\* the dict enrich_video returns; src: the task that made it
Item(i, f, total, count) ==
    [src |-> i, bvid |-> catalog[i].bvid.v, title |-> f.title, pic |-> f.pic,
     owner |-> f.owner, online_total |-> total, online_count |-> count,
     view |-> f.view, danmaku |-> f.danmaku, pubdate |-> f.pubdate]

\* the ordinal of the next completion and the number of tasks
Ordinal == Cardinality({j \in Tasks : cpc[j] \in {"ok", "failed"}}) + 1

Total == Cardinality({j \in Tasks : cpc[j] # "absent"})

\* the locals of a coroutine that has ended
Ended(i) ==
    /\ stage' = [stage EXCEPT ![i] = "detail"]
    /\ fields' = [fields EXCEPT ![i] = NoFields]
    /\ attempt' = [attempt EXCEPT ![i] = 0]
    /\ last_err' = [last_err EXCEPT ![i] = "none"]
    /\ gets' = [gets EXCEPT ![i] = <<>>]

\* faulty variant: the loop stops collecting at the first exception
CollectedUnlessFailure(i, item) ==
    /\ enriched' = IF \E j \in Tasks : cpc[j] = "failed" THEN enriched
                   ELSE Append(enriched, item)
    /\ progress' = IF Ordinal % ProgressEvery = 0 \/ Ordinal = Total
                   THEN progress \cup {Ordinal} ELSE progress
    /\ cpc' = [cpc EXCEPT ![i] = "ok"]
    /\ Ended(i)

\* the as_completed loop of build_payload receives a result: append it, report
\* the progress at every tenth completion and at the last
Collected(i, item) ==
    /\ enriched' = Append(enriched, item)
    /\ progress' = IF Ordinal % ProgressEvery = 0 \/ Ordinal = Total
                   THEN progress \cup {Ordinal} ELSE progress
    /\ cpc' = [cpc EXCEPT ![i] = "ok"]
    /\ Ended(i)

\* the as_completed loop of build_payload receives an exception: report, continue
CollectedFailure(i) ==
    /\ enriched' = enriched
    /\ progress' = progress
    /\ cpc' = [cpc EXCEPT ![i] = "failed"]
    /\ Ended(i)

\* the coroutine starts: raise on a missing bvid, else go for the semaphore
enrich_start(i) ==
    /\ pc = "fanout"
    /\ cpc[i] = "new"
    /\ IF MissingBvid(catalog[i])
       THEN /\ CollectedFailure(i)
            /\ exc' = [exc EXCEPT ![i] = MissingBvidError]
       ELSE /\ cpc' = [cpc EXCEPT ![i] = "semwait"]
            /\ UNCHANGED <<stage, fields, attempt, last_err, gets, enriched, progress, exc>>
    /\ UNCHANGED <<schedVars, diskVars, limiterVars, catalog, answered, permits, touched,
                   payload>>

\* faulty variant: the semaphore never blocks
SemAlwaysAvailable == TRUE

SemAvailable == permits > 0

\* async with sem: a permit is taken; _get_json_with_retry starts
sem_acquire(i) ==
    /\ cpc[i] = "semwait"
    /\ SemAvailable
    /\ permits' = permits - 1
    /\ cpc' = [cpc EXCEPT ![i] = "limwait"]
    /\ UNCHANGED <<schedVars, diskVars, limiterVars, catalog, stage, fields, answered, attempt,
                   last_err, gets, touched, enriched, progress, payload, exc>>

\* faulty variant: the permit is not released when the fetch raises
enrich_failed_keeps_permit(i) ==
    /\ i \in Tasks
    /\ Exhausted(i)
    /\ Touch(i)
    /\ permits' = permits
    /\ exc' = [exc EXCEPT ![i] = FetchError(last_err[i])]
    /\ CollectedFailure(i)
    /\ UNCHANGED <<schedVars, diskVars, limiterVars, catalog, answered, payload>>

\* the fetch of a task gives up: the permit is released, enrich_video raises
enrich_failed(i) ==
    /\ i \in Tasks
    /\ Exhausted(i)
    /\ Touch(i)
    /\ permits' = permits + 1
    /\ exc' = [exc EXCEPT ![i] = FetchError(last_err[i])]
    /\ CollectedFailure(i)
    /\ UNCHANGED <<schedVars, diskVars, limiterVars, catalog, answered, payload>>

\* the detail answer arrives and the permit is released; the fields are
\* resolved; with a cid the task goes for the online count, without one it
\* returns its item
detail_ok(i) ==
    /\ i \in Tasks
    /\ cpc[i] = "get"
    /\ stage[i] = "detail"
    /\ Touch(i)
    /\ Resumed(i)
    /\ permits' = permits + 1
    /\ \E data \in net.details :
          IF ViewDataRaises(data)
          THEN /\ CollectedFailure(i)
               /\ exc' = [exc EXCEPT ![i] = AttributeError]
          ELSE IF Truthy(_safe_int(ViewData(data).cid))
          THEN /\ stage' = [stage EXCEPT ![i] = "online"]
               /\ fields' = [fields EXCEPT ![i] = Resolve(catalog[i], ViewData(data))]
               /\ attempt' = [attempt EXCEPT ![i] = 0]
               /\ last_err' = [last_err EXCEPT ![i] = "none"]
               /\ gets' = [gets EXCEPT ![i] = <<>>]
               /\ cpc' = [cpc EXCEPT ![i] = "semwait"]
               /\ UNCHANGED <<enriched, progress, exc>>
          ELSE /\ Collected(i, Item(i, Resolve(catalog[i], ViewData(data)), JNone, JNone))
               /\ exc' = exc
    /\ UNCHANGED <<diskVars, limiterVars, catalog, answered, payload>>

\* JSON objects the online endpoint may answer with
OnlineResponses == net.onlines

\* online_total: d.get("total") when code == 0 and the data is a dict, else None
OnlineTotal(raw) ==
    IF raw.code = 0 /\ IsDict(raw.data) THEN raw.data.total ELSE JNone

\* faulty variant: the count is read whatever the code
OnlineCountAnyCode(raw) ==
    IF IsDict(raw.data) THEN _safe_int(raw.data.count) ELSE JNone

\* online_count: _safe_int(d.get("count")) when code == 0, else None
OnlineCount(raw) ==
    IF raw.code = 0 /\ IsDict(raw.data) THEN _safe_int(raw.data.count) ELSE JNone

\* the online answer arrives and the permit is released; the task returns its item
online_ok(i) ==
    /\ i \in Tasks
    /\ cpc[i] = "get"
    /\ stage[i] = "online"
    /\ Touch(i)
    /\ Resumed(i)
    /\ permits' = permits + 1
    /\ \E raw \in OnlineResponses :
          /\ answered' = [answered EXCEPT ![i] = JInt(raw.code)]
          /\ Collected(i, Item(i, fields[i], OnlineTotal(raw), OnlineCount(raw)))
    /\ UNCHANGED <<diskVars, limiterVars, catalog, payload, exc>>

\* ------------------------------------------------------------ build_payload: ranking
\* faulty variant: the count is not negated
sort_key_ascending(x) ==
    LET o == IF x.online_count.t = "int" THEN x.online_count.v ELSE -1
    IN  <<IF o >= 0 THEN 0 ELSE 1, IF o >= 0 THEN o ELSE 0>>

sort_key(x) ==
    LET o == IF x.online_count.t = "int" THEN x.online_count.v ELSE -1
    IN  <<IF o >= 0 THEN 0 ELSE 1, -(IF o >= 0 THEN o ELSE 0)>>

\* Python's order on tuples
TupleLess(a, b) == a[1] < b[1] \/ (a[1] = b[1] /\ a[2] < b[2])

\* list.sort is stable: x goes before the first element whose key is greater
RECURSIVE InsertSorted(_, _)
InsertSorted(s, x) ==
    IF s = <<>> THEN <<x>>
    ELSE IF TupleLess(sort_key(x), sort_key(Head(s))) THEN <<x>> \o s
    ELSE <<Head(s)>> \o InsertSorted(Tail(s), x)

\* faulty variant: the list is returned as collected
SortNothing(s) == s

RECURSIVE SortByKey(_)
SortByKey(s) ==
    IF s = <<>> THEN <<>>
    ELSE InsertSorted(SortByKey(SubSeq(s, 1, Len(s) - 1)), s[Len(s)])

AllCollected == \A i \in Tasks : cpc[i] \in {"absent", "ok", "failed"}

\* faulty variant: a cycle that enriched nothing fails instead of writing
build_payload_needs_items ==
    /\ pc = "fanout"
    /\ AllCollected
    /\ IF enriched = <<>>
       THEN /\ CycleFailed
            /\ exc' = exc
       ELSE /\ payload' = Snapshot(cycles, SortByKey(enriched))
            /\ pc' = "w_makedirs"
            /\ NewLimiter
            /\ UNCHANGED <<stop_event, atStop, cycles, cfg, net, outcome, diskVars, catalog,
                           cpc, stage, fields, answered, attempt, last_err, gets, permits,
                           touched, enriched, progress, exc>>

\* every task is accounted for: sort, stamp, return; run_once pops "error" and
\* calls _atomic_write_json
build_payload ==
    /\ pc = "fanout"
    /\ AllCollected
    /\ payload' = Snapshot(cycles, SortByKey(enriched))
    /\ pc' = "w_makedirs"
    /\ NewLimiter
    /\ UNCHANGED <<stop_event, atStop, cycles, cfg, net, outcome, diskVars, catalog, cpc, stage, fields, answered,
                   attempt, last_err, gets, permits, touched, enriched, progress, exc>>


\* ------------------------------------------------------------ _atomic_write_json
path == "out"

\* faulty variant: the document is written in place
tmp_path_in_place == "out"

\* tmp_path = f"{path}.tmp"
tmp_path == "tmp"

\* os.makedirs(dirname, exist_ok=True)
write_makedirs ==
    /\ pc = "w_makedirs"
    /\ pc' = "w_open"
    /\ UNCHANGED <<stop_event, atStop, cycles, cfg, net, outcome, diskVars, limiterVars, taskVars>>

\* open(tmp_path, "w") creates or truncates the temporary file
write_open ==
    /\ pc = "w_open"
    /\ disk' = [disk EXCEPT ![tmp_path] = FileOf(payload, 0, FALSE)]
    /\ pc' = "w_dump"
    /\ UNCHANGED <<stop_event, atStop, cycles, cfg, net, outcome, fileBefore, limiterVars, taskVars>>

\* json.dump writes the next chunk of the document
write_dump ==
    /\ pc = "w_dump"
    /\ disk[tmp_path].written < DocChunks
    /\ disk' = [disk EXCEPT ![tmp_path].written = @ + 1]
    /\ UNCHANGED <<schedVars, fileBefore, limiterVars, taskVars>>

\* the document is written: f.flush(); os.fsync(f.fileno()); the file is closed
fsync == [disk EXCEPT ![tmp_path].synced = TRUE]

write_fsync ==
    /\ pc = "w_dump"
    /\ disk[tmp_path].written = DocChunks
    /\ disk' = fsync
    /\ pc' = "w_replace"
    /\ UNCHANGED <<stop_event, atStop, cycles, cfg, net, outcome, fileBefore, limiterVars, taskVars>>

\* os.replace(tmp_path, path): the rename; run_once reports and returns
replace == [[disk EXCEPT ![path] = disk[tmp_path]] EXCEPT ![tmp_path] = NoFile]

write_replace ==
    /\ pc = "w_replace"
    /\ disk' = IF tmp_path = path THEN disk ELSE replace
    /\ ReturnToScheduler("ok")
    /\ UNCHANGED <<stop_event, cycles, cfg, net, fileBefore, exc>>

\* any step of the write raises (OSError, TypeError): run_once's except
write_failed ==
    /\ pc \in {"w_makedirs", "w_open", "w_dump", "w_replace"}
    /\ exc' = [exc EXCEPT ![0] = WriteError]
    /\ CycleFailed

\* ------------------------------------------------------------ interruption
\* what a loss of power leaves of a file: one never forced to stable storage
\* keeps some prefix of what was written
Survives(f) ==
    IF f.st = "present" /\ ~f.synced
    THEN {FileOf(f.doc, k, FALSE) : k \in 0 .. f.written}
    ELSE {f}

\* the process is killed, or the machine loses power, during _atomic_write_json
crash ==
    /\ pc \in {"w_makedirs", "w_open", "w_dump", "w_replace"}
    /\ pc' = "killed"
    /\ disk' \in {[out |-> o, tmp |-> t] : o \in Survives(disk.out), t \in Survives(disk.tmp)}
    /\ UNCHANGED <<stop_event, atStop, cycles, cfg, net, outcome, fileBefore, limiterVars, taskVars>>

\* ------------------------------------------------------------ the program
\* the steps of one cycle
NextCycle ==
    \/ scheduler_start
    \/ \E c \in Callers : limiter_wait(c)
    \/ \E c \in Callers : limiter_wake(c)
    \/ Tick
    \/ \E c \in Callers : get_failed(c)
    \/ fetch_popular_failed
    \/ fetch_popular_videos
    \/ \E i \in Tasks : enrich_start(i)
    \/ \E i \in Tasks : sem_acquire(i)
    \/ \E i \in Tasks : enrich_failed(i)
    \/ \E i \in Tasks : detail_ok(i)
    \/ \E i \in Tasks : online_ok(i)
    \/ build_payload
    \/ write_makedirs
    \/ write_open
    \/ write_dump
    \/ write_fsync
    \/ write_replace
    \/ write_failed

Next ==
    \/ NextCycle
    \/ signal_stop
    \/ wait_timeout
    \/ wait_stopped
    \/ scheduler_return

NextCrash == Next \/ crash

\* what the event loop and the network guarantee: a coroutine that can run
\* does, every request is answered or fails, time passes; nothing makes a
\* signal arrive or obliges the interval to elapse
Fairness ==
    /\ WF_vars(NextCycle)
    /\ WF_vars(wait_stopped)
    /\ WF_vars(scheduler_return)

\* the worker, from its start to its graceful shutdown
Spec == Init /\ [][Next]_vars

\* one cycle over a full catalog, no signal arriving
SpecFanout == InitFanout /\ [][NextCycle]_vars

\* the worker, interruptible during the snapshot write
SpecCrash == Init /\ [][NextCrash]_vars

\* the worker under the scheduling the event loop guarantees
FairSpec == Spec /\ Fairness

\* one cycle over one entry, with every shape of entry and of answer
SpecEnrich == InitEnrich /\ [][NextCycle]_vars

\* one cycle over a full catalog under the scheduling the event loop guarantees
FairFanout == SpecFanout /\ WF_vars(NextCycle)


\* ------------------------------------------------------------ properties
\* a step in which wait() returns to a caller, which issues its request
AdmitStep == \E c \in Callers : cpc[c] \in {"limwait", "limsleep"} /\ cpc'[c] = "get"

\* C1: whenever wait() returns to any caller, the limiter's previous return, to
\* whichever caller, lies at least the minimum interval back
C1_GlobalSpacing == [][AdmitStep => (age < 0 \/ age >= MinIntervalTicks)]_vars

\* a task has slept in wait() and is about to be admitted while another task
\* waits for the limiter's lock
C1_Witness ==
    \E c, d \in Tasks :
        /\ c # d
        /\ cpc[c] = "limsleep" /\ sleepLeft[c] = 0
        /\ cpc[d] = "limwait"
        /\ age >= MinIntervalTicks

\* a task is inside a network-call section: it holds a permit
InSection(i) == cpc[i] \in {"limwait", "limsleep", "get", "backoff"}

\* C2: at most max_concurrency tasks are inside a network-call section
C2_BoundedConcurrency == Cardinality({i \in Tasks : InSection(i)}) <= cfg.max_concurrency

\* every permit is taken and a further task waits for one
C2_Witness ==
    /\ Cardinality({i \in Tasks : InSection(i)}) = cfg.max_concurrency
    /\ cfg.max_concurrency > 1
    /\ \E i \in Tasks : cpc[i] = "semwait"

Sources(items) == {items[k].src : k \in 1 .. Len(items)}

\* C3: the payload build_payload returns holds exactly one item per entry whose
\* enrichment succeeded, and the fan-out ends in that return, never in a failure
C3_PartialFailure ==
    /\ [](payload # NoPayload =>
            /\ Sources(payload.items) = {i \in Tasks : cpc[i] = "ok"}
            /\ Len(payload.items) = Cardinality({i \in Tasks : cpc[i] = "ok"}))
    /\ [][pc = "fanout" => pc' \in {"fanout", "w_makedirs"}]_vars

\* build_payload has returned after an enrichment failed and, later, another
\* succeeded
C3_Witness ==
    /\ payload # NoPayload
    /\ \E i, j \in Tasks :
          /\ i < j
          /\ cpc[i] = "failed" /\ ~MissingBvid(catalog[i])
          /\ cpc[j] = "ok"
    /\ Len(payload.items) >= 1

\* C4: the output file changes only in one step, from what it was to the
\* complete new document, forced to stable storage, whatever interrupts the write
C4_AtomicReplace ==
    [][disk'.out # disk.out =>
         /\ disk'.out = FileOf(payload, DocChunks, TRUE)
         /\ payload # NoPayload]_vars

\* the write was interrupted: the output file is what it was when the cycle
\* began and a partial temporary file is left behind
C4_Witness ==
    /\ pc = "killed"
    /\ disk.out = fileBefore
    /\ disk.out.st = "present"
    /\ disk.tmp.st = "present" /\ disk.tmp.written \in 1 .. DocChunks - 1

\* C5: after a failed cycle the output file is what it was when the cycle
\* began, and the failing step takes the scheduler to its interval wait, from
\* which it goes to the next cycle or, stopped, to its shutdown
C5_FailedCycleKeepsSnapshot ==
    /\ [](outcome = "failed" =>
            /\ disk.out = fileBefore
            /\ SchedState \in {"Sleeping", "ShuttingDown", "Stopped"})
    /\ [][(outcome # "failed" /\ outcome' = "failed") => pc' = "sleeping"]_vars
    /\ [][(outcome = "failed" /\ pc = "sleeping" /\ pc' # pc) =>
            pc' \in {"catalog", "shutting"}]_vars

\* the second cycle failed and the snapshot of the first is still there
C5_Witness ==
    /\ outcome = "failed"
    /\ pc = "sleeping"
    /\ cycles = 2
    /\ Complete(disk.out)
    /\ disk.out.doc.json = "object" /\ disk.out.doc.updated_at = 1

\* C6: the scheduler has left its loop only if the stop signal was received
C6_OnlyStopEndsLoop ==
    SchedState \in {"ShuttingDown", "Stopped", "Crashed"} => stop_event

\* C7: a stop signal leaves a running cycle running, to its end; once the
\* signal is received no cycle starts
C7_StopKeepsCycle ==
    /\ [][(stop_event' /\ SchedState = "Running") =>
            SchedState' \in {"Running", "Sleeping"}]_vars
    /\ [][stop_event => cycles' = cycles]_vars

\* the signal arrived during a cycle, which has gone on to its rename
C7_Witness == stop_event /\ pc = "w_replace" /\ Complete(disk.tmp)

\* C8: once the stop signal is received the scheduler reaches Stopped; a wait
\* that ends with the signal received ends in the shutdown
C8_GracefulShutdown ==
    /\ stop_event ~> pc = "stopped"
    /\ [][(stop_event /\ pc = "sleeping" /\ pc' # pc) => pc' = "shutting"]_vars

\* stopped during the wait after the first cycle: the interval never elapsed
C8_Witness == pc = "stopped" /\ stop_event /\ cycles = 1

\* the entry has no usable identifier: absent, empty or not a string
NoIdentifier(e) == e.bvid = JNone \/ e.bvid = JStr(<<>>) \/ e.bvid.t # "str"

\* C9: an entry without a usable identifier never waits on the limiter, never
\* issues a request, never holds a permit, and has no item in the results
C9_MissingIdentifierDropped ==
    \A i \in 1 .. Len(catalog) :
        NoIdentifier(catalog[i]) =>
            /\ i \notin touched
            /\ cpc[i] \in {"absent", "new", "failed"}
            /\ i \notin Sources(enriched)
            /\ payload # NoPayload => i \notin Sources(payload.items)

\* three entries, one a dict without identifier, two enriched: two items
C9_Witness ==
    /\ payload # NoPayload
    /\ Len(catalog) = 3
    /\ \E i \in 1 .. 3 :
          /\ catalog[i].dict /\ NoIdentifier(catalog[i]) /\ cpc[i] = "failed"
          /\ \A j \in (1 .. 3) \ {i} : cpc[j] = "ok"
    /\ Len(payload.items) = 2

HasCount(x) == x.online_count.t = "int"

NonNegative(x) == HasCount(x) /\ x.online_count.v >= 0

\* every item without a non-negative count comes after every item with one
CountedFirst(items) ==
    \A a, b \in 1 .. Len(items) :
        (NonNegative(items[a]) /\ ~NonNegative(items[b])) => a < b

\* C10, as stated: items with a count are in descending order of count, and
\* the items with no or a negative count come last
C10_RankingAsStated ==
    payload # NoPayload =>
        /\ \A a, b \in 1 .. Len(payload.items) :
              (a < b /\ HasCount(payload.items[a]) /\ HasCount(payload.items[b])) =>
                  payload.items[a].online_count.v >= payload.items[b].online_count.v
        /\ CountedFirst(payload.items)

\* C10, amended: items with a non-negative count are in descending order of
\* count, and the items with no or a negative count come last
C10_Ranking ==
    payload # NoPayload =>
        /\ \A a, b \in 1 .. Len(payload.items) :
              (a < b /\ NonNegative(payload.items[a]) /\ NonNegative(payload.items[b])) =>
                  payload.items[a].online_count.v >= payload.items[b].online_count.v
        /\ CountedFirst(payload.items)

\* the sort moved items: a larger count completed after a smaller one and
\* after an item without a usable count
C10_Witness ==
    /\ payload # NoPayload
    /\ Len(enriched) = 3
    /\ ~NonNegative(enriched[1])
    /\ NonNegative(enriched[2]) /\ NonNegative(enriched[3])
    /\ enriched[2].online_count.v < enriched[3].online_count.v
    /\ payload.items = <<enriched[3], enriched[2], enriched[1]>>

\* the orders in which the results in s could have been collected
CompletionOrders(s) ==
    {[k \in 1 .. Len(s) |-> s[f[k]]] :
        f \in {g \in [1 .. Len(s) -> 1 .. Len(s)] : \A a, b \in 1 .. Len(s) : g[a] = g[b] => a = b}}

Keys(items) == [k \in 1 .. Len(items) |-> sort_key(items[k])]

\* C11, as stated: whatever the order in which the same results are collected,
\* build_payload returns the same items in the same order
C11_OrderAsStated ==
    payload # NoPayload =>
        \A other \in CompletionOrders(enriched) : SortByKey(other) = payload.items

\* C11, amended: whatever the order in which the same results are collected,
\* build_payload returns the same set of items with the same sequence of
\* ranking keys; only items with equal keys may change places
C11_OrderUpToTies ==
    payload # NoPayload =>
        \A other \in CompletionOrders(enriched) :
            /\ Sources(SortByKey(other)) = Sources(payload.items)
            /\ Len(SortByKey(other)) = Len(payload.items)
            /\ Keys(SortByKey(other)) = Keys(payload.items)

\* three results, collected with the largest count last and two distinct
\* counts, so that some other order of collection is ranked the same way
C11_Witness ==
    /\ payload # NoPayload
    /\ Len(enriched) = 3
    /\ NonNegative(enriched[1]) /\ NonNegative(enriched[3])
    /\ ~HasCount(enriched[2])
    /\ enriched[1].online_count.v < enriched[3].online_count.v
    /\ payload.items = <<enriched[3], enriched[1], enriched[2]>>

\* the position in items of the item task i made
ItemOf(items, i) == items[CHOOSE k \in 1 .. Len(items) : items[k].src = i]

C13_TitleNeverEmpty ==
    \A k \in 1 .. Len(enriched) :
        IsStr(enriched[k].title) /\ enriched[k].title.v # <<>>

\* a non-empty string; what the layered fallback takes as a usable title or cover
NonEmptyStr(v) == IsStr(v) /\ v.v # <<>>

\* the first of the detail's value, the raw entry's value and the default that
\* is usable
Layered(usable(_), detail, raw, default) ==
    IF usable(detail) THEN detail ELSE IF usable(raw) THEN raw ELSE default

\* the fields as the layered fallback resolves them: detail, then raw entry,
\* then default
LayeredFields(raw, vd) ==
    LET stat == Layered(IsDict, vd.stat, raw.stat, JNone)
    IN  [title |-> Layered(NonEmptyStr, vd.title, raw.title, Placeholder(raw.bvid.v)),
         pic |-> Layered(NonEmptyStr, vd.pic, raw.pic, JStr(<<>>)),
         owner |-> Layered(IsDict, vd.owner, raw.owner, JNone),
         view |-> IF IsDict(stat) THEN _safe_int(stat.view) ELSE JNone,
         danmaku |-> IF IsDict(stat) THEN _safe_int(stat.danmaku) ELSE JNone,
         pubdate |-> FormatTime(IntOf(Layered(IsInt, vd.pubdate, raw.pubdate, JInt(0))))]

\* each field is absent or plainly usable: a non-empty string, a dict, an int
Plain(f) ==
    /\ f.title = JNone \/ NonEmptyStr(f.title)
    /\ f.pic = JNone \/ NonEmptyStr(f.pic)
    /\ f.owner = JNone \/ IsDict(f.owner)
    /\ f.stat = JNone \/ IsDict(f.stat)
    /\ f.pubdate = JNone \/ f.pubdate.t = "int"

\* C15: whatever detail answer a task waiting for one receives, the fields
\* enrich_video resolves are those of the layered fallback (checked where
\* every field of the entry and of the answer is absent or plainly usable)
C15_DetailFirst ==
    \A i \in Tasks :
        (cpc[i] = "get" /\ stage[i] = "detail" /\ Plain(catalog[i])) =>
            \A data \in net.details :
                (~ViewDataRaises(data) /\ Plain(ViewData(data))) =>
                    Resolve(catalog[i], ViewData(data)) = LayeredFields(catalog[i], ViewData(data))

\* the raw entry carries a title, a cover, an owner and a stat block
HasRawFields(raw) ==
    IsStr(raw.title) /\ IsStr(raw.pic) /\ IsDict(raw.owner) /\ IsDict(raw.stat)

\* C16: when the detail fetch of an entry that carries fields gives up, the
\* task ends with an item made of the raw entry's fields, the online fields null
C16_DetailFailureNotFatal ==
    [][\A i \in Tasks :
          (Exhausted(i) /\ stage[i] = "detail" /\ HasRawFields(catalog[i])
             /\ cpc'[i] # cpc[i]) =>
              /\ cpc'[i] = "ok"
              /\ enriched' = Append(enriched,
                     Item(i, LayeredFields(catalog[i], Detail(JNone, Bare)), JNone, JNone))]_vars

\* caller c is inside a call of _get_json_with_retry
InCall(c) == cpc[c] \in {"limwait", "limsleep", "get", "backoff"}

\* a step in which the GET of caller c returns a JSON object
Answered(c) ==
    cpc[c] = "get" /\ cpc'[c] # "get" /\ Len(gets'[c]) # Len(gets[c]) + 1

\* C14: a call issues at most Retries GETs, each after a wait() of its own; a
\* failed attempt (a body that is not a JSON object included) leads to the next
\* wait() or, the last one, to the raise; the first GET that returns a JSON
\* object ends the call; the call raises only after Retries failed attempts,
\* one error that carries the cause of the last
C14_RetryProtocol ==
    /\ [](\A c \in Callers :
            /\ Len(gets[c]) <= Retries
            /\ \A k \in 1 .. Len(gets[c]) : gets[c][k] \in Causes
            /\ cpc[c] \in {"limwait", "limsleep", "get"} =>
                  (Len(gets[c]) = attempt[c] /\ attempt[c] < Retries)
            /\ cpc[c] = "backoff" => Len(gets[c]) = Retries)
    /\ [][\A c \in Callers :
            (cpc'[c] = "get" /\ cpc[c] # "get") => cpc[c] \in {"limwait", "limsleep"}]_vars
    /\ [][\A c \in Callers :
            (cpc[c] = "get" /\ Len(gets'[c]) = Len(gets[c]) + 1) =>
                cpc'[c] = IF Len(gets'[c]) < Retries THEN "limwait" ELSE "backoff"]_vars
    /\ [][\A c \in Callers : Answered(c) => (~InCall(c))' \/ gets'[c] = <<>>]_vars
    /\ [][\A c \in Callers :
            (Exhausted(c) /\ cpc'[c] # cpc[c]) =>
                (~InCall(c))' /\ exc'[c] = FetchError(gets[c][Retries])]_vars
    /\ [][\A c \in Callers :
            (exc'[c] # exc[c] /\ \E cause \in Causes : exc'[c] = FetchError(cause)) =>
                Exhausted(c)]_vars

\* a fetch gave up after attempts that failed in different ways, the last by
\* a body that was not a JSON object
C14_Witness ==
    \E i \in Tasks :
        /\ cpc[i] = "failed"
        /\ exc[i] = FetchError("ValueError")
        /\ answered[i] = JNone
        /\ i \in touched

\* C17: a suspension in the sleep of wait() or in a GET that the stop signal
\* found in progress never runs to its normal completion, and an interval wait
\* that ends with the signal received ends at once in the shutdown
C17_StopCancelsSuspensions ==
    /\ [][\A c \in atStop :
            /\ ~(cpc[c] = "limsleep" /\ cpc'[c] = "get")
            /\ ~Answered(c)]_vars
    /\ [][(stop_event /\ pc = "sleeping" /\ pc' # pc) => pc' \in {"shutting"}]_vars

\* completions the as_completed loop has seen
Completions == Ordinal - 1

\* C18: every completion whose ordinal is a multiple of ten, and the last one,
\* has been reported as progress, whether it was a success or a failure
C18_ProgressCadence ==
    pc = "fanout" =>
        \A n \in 1 .. Completions :
            (n % ProgressEvery = 0 \/ n = Total) => n \in progress

\* C19: the fan-out always ends in build_payload's return, with every task
\* ended; during the fan-out the permits taken are those of the tasks inside a
\* fetch, and at the return every permit and the limiter's lock are free
C19_CycleTerminates ==
    /\ (pc = "fanout") ~> (pc = "w_makedirs")
    /\ [](pc = "fanout" =>
            permits + Cardinality({i \in Tasks : InSection(i)}) = cfg.max_concurrency)
    /\ [](pc = "w_makedirs" =>
            permits = cfg.max_concurrency /\ lock = NoHolder /\ AllCollected)

\* every permit is taken, a task waits for one, and the holder of the limiter's
\* lock sleeps while another task waits for the lock
C19_Witness ==
    /\ permits = 0
    /\ \E i, j, k \in Tasks :
          /\ cpc[i] = "semwait"
          /\ cpc[j] = "limsleep" /\ lock = {j}
          /\ cpc[k] = "limwait" /\ attempt[k] > 0

\* C20: once the catalog has arrived the cycle goes to the write with a
\* snapshot of exactly the items enriched, however many enrichments failed;
\* the write ends by replacing the output file with that snapshot unless the
\* write itself raises; under the loop's scheduling the cycle gets there
C20_CatalogSuccessWrites ==
    /\ [][(pc = "fanout" /\ pc' # pc) =>
            /\ pc' = "w_makedirs"
            /\ payload' = Snapshot(cycles, payload'.items)
            /\ Sources(payload'.items) = {i \in Tasks : cpc[i] = "ok"}]_vars
    /\ [][(pc \in {"w_makedirs", "w_open", "w_dump", "w_replace"} /\ pc' = "sleeping") =>
            \/ outcome' = "ok" /\ disk'.out = FileOf(payload, DocChunks, TRUE)
            \/ outcome' = "failed" /\ exc'[0] = WriteError]_vars
    /\ (pc = "fanout") ~> (pc = "sleeping" /\ (outcome = "ok" \/ exc[0] = WriteError))

\* the second cycle enriched nothing and its empty snapshot has replaced the
\* first cycle's snapshot of one item
C20_Witness ==
    /\ pc = "sleeping"
    /\ outcome = "ok"
    /\ cycles = 2
    /\ Complete(fileBefore)
    /\ fileBefore.doc.json = "object"
    /\ Len(fileBefore.doc.items) = 1
    /\ disk.out = FileOf(Snapshot(2, <<>>), DocChunks, TRUE)

====
